---- MODULE Spec2Model ----
(***************************************************************************)
(* Aimi backend: the goal-dependency graph with status propagation         *)
(* (GoalRepository, GoalTools) and the LLM tool-calling loop               *)
(* (LLMToolRegistry, ConversationOrchestrator).                            *)
(*                                                                         *)
(* The database is modelled as the rows the current session sees (status,  *)
(* deps) and the rows of the last commit (committed): AsyncSession.rollback*)
(* discards everything flushed since the last commit.                      *)
(***************************************************************************)
EXTENDS Integers, Sequences, FiniteSets, TLC

\* ------------------------------------------------------------------ bounds
\* goal ids the requesting user can create (Goal.id values)
MaxGoals == 3
\* goals of the requesting user that exist (committed) before the first call
InitGoals == 2
\* edges that exist (committed) before the first call of SpecGraph
MaxInitDeps == 2
\* repository/tool operations per behaviour of SpecGraph
MaxGraphOps == 2
\* repository/tool operations per behaviour
MaxOps == 3
\* tool calls the model returns in one turn
MaxCalls == 2

\* SessionCache(max_messages=...)
MaxMessages == 2
\* SessionCache.append calls per user
MaxAppends == 3

\* ChatMessage objects the caller can pass as the history of a turn
MaxHistory == 22

\* requests that save messages at the same time, each with its own session
MaxRequests == 2
\* _save_message calls per request
MaxSaves == 2

\* WebSockets opened during a behaviour
MaxSockets == 2

\* ------------------------------------------------------------------ enums
GoalStatus == {"todo", "blocked", "done", "canceled"}

DependencyType == {"requires", "enables", "blocks", "related", "parallel"}

\* ---------------------------------------------------------------- the rows
\* a goal of another user; it exists before the first call
ForeignGoal == 0

Goals == 1..MaxGoals

AllGoals == Goals \cup {ForeignGoal}

\* marks an id with no row in the goals table
Absent == "absent"

\* the user every tool object of this session is bound to
SessionUser == "user"

\* Goal.user_id with every goal owned by the requesting user
user_id_shared(g) == SessionUser

\* Goal.user_id
user_id(g) == IF g = ForeignGoal THEN "other" ELSE SessionUser

\* stands for a string that is no UUID
Malformed == MaxGoals + 1

\* goal_id arguments a tool can be given: ids of existing rows, ids with no
\* row, and a string UUID() rejects
GoalRefs == AllGoals \cup {Malformed}

\* strength arguments: below the range, and inside it
StrengthInputs == {0, 1}

\* GoalDependency rows
Dependency(p, d, t, n) ==
  [parent_goal_id |-> p, dependent_goal_id |-> d, dependency_type |-> t, strength |-> n]

\* the database as one session sees it
Db(st, ds) == [status |-> st, deps |-> ds]

VARIABLES
  status,     \* goals table, session view: Goal.id -> Goal.status, or Absent
  deps,       \* goal_dependencies table, session view
  committed,  \* both tables as of the last commit
  ret,        \* what the last operation returned
  nops,       \* operations so far
  pc,         \* where generate_response is
  n_calls,    \* length of the tool_calls list of the first model call
  tool_calls, \* the calls of that list taken so far: function name, kind of arguments
  results,    \* the results list of process_function_calls
  llm_raised, \* the model call that raised, or "none"
  llm_calls,  \* model calls made
  llm_log,    \* the model calls made: the method called, and the results entries there were
  response,   \* what generate_response returned
  session,    \* Redis lists session:<user_id>: user -> list of payloads
  meta,       \* Redis hashes session_meta:<user_id>: user -> hash, or NoMeta
  appended,   \* every message append was called with, per user, in call order
  live,       \* per user, the append calls since the keys last expired or were cleared
  messages,   \* the history list the caller passes to generate_response
  context,    \* what _build_enhanced_context returned last
  fields,     \* goals table, session view: Goal.id -> title and priority
  field_ret,  \* what the last goal-field update tool returned
  msg_rows,   \* messages table, committed rows: chat_id, seq, id
  chat_last_seq, \* chats table, committed: Chat.id -> Chat.last_seq
  chat_lock,  \* the request whose uncommitted UPDATE holds the row of a chat, or NoRequest
  tx,         \* per request: where _save_message is, its chat, next_seq, messages saved
  active_connections, \* ConnectionManager.active_connections: chat_id -> socket, or NoSocket
  ws          \* per WebSocket: where chat_websocket is, its chat, what it did last

turn == <<pc, n_calls, tool_calls, results, llm_raised, llm_calls, llm_log, response>>

\* what the goal tools, the turn and the session cache leave alone
convo == <<messages, context>>

goal_fields == <<fields, field_ret>>

saving == <<msg_rows, chat_last_seq, chat_lock, tx>>

sockets == <<active_connections, ws>>

rest == <<convo, goal_fields, saving, sockets>>

memory == <<session, meta, appended, live, rest>>

\* what the operations on rest leave alone
base == <<status, deps, committed, ret, nops, turn, session, meta, appended, live>>

vars == <<status, deps, committed, ret, nops, turn, memory>>

\* ------------------------------------------------------------- repository
\* the row, seen through its status column, or Absent for None
get_by_id(db, goal_id) ==
  IF goal_id \in AllGoals THEN db.status[goal_id] ELSE Absent

get_goal_dependencies(db, goal_id) ==
  {dep \in db.deps : dep.dependent_goal_id = goal_id}

get_goal_dependents(db, goal_id) ==
  {dep \in db.deps : dep.parent_goal_id = goal_id}

update_goal(db, goal, new_status) ==
  Db([db.status EXCEPT ![goal] = new_status], db.deps)

\* should_block with the test of the parent's status inverted
should_block_inverted(db, goal_id) ==
  \E dep \in get_goal_dependencies(db, goal_id) :
    /\ dep.dependency_type = "requires"
    /\ get_by_id(db, dep.parent_goal_id) # Absent
    /\ db.status[dep.parent_goal_id] \in {"done", "canceled"}

\* should_block without the test of the dependency type
should_block_any_type(db, goal_id) ==
  \E dep \in get_goal_dependencies(db, goal_id) :
    /\ get_by_id(db, dep.parent_goal_id) # Absent
    /\ db.status[dep.parent_goal_id] \notin {"done", "canceled"}

\* should_block that needs every requires parent to be unfinished
should_block_every_parent(db, goal_id) ==
  /\ \E dep \in get_goal_dependencies(db, goal_id) : dep.dependency_type = "requires"
  /\ \A dep \in get_goal_dependencies(db, goal_id) :
       dep.dependency_type = "requires" =>
         /\ get_by_id(db, dep.parent_goal_id) # Absent
         /\ db.status[dep.parent_goal_id] \notin {"done", "canceled"}

\* the loop of recalculate_goal_status_after_dependency_change
should_block(db, goal_id) ==
  \E dep \in get_goal_dependencies(db, goal_id) :
    /\ dep.dependency_type = "requires"
    /\ get_by_id(db, dep.parent_goal_id) # Absent
    /\ db.status[dep.parent_goal_id] \notin {"done", "canceled"}

\* the recomputation without its unblocking branch
recalculate_never_unblocks(db, goal_id) ==
  IF get_by_id(db, goal_id) = Absent THEN db
  ELSE IF should_block(db, goal_id) /\ db.status[goal_id] = "todo"
    THEN update_goal(db, goal_id, "blocked")
  ELSE db

\* the recomputation without the tests of the goal's current status
recalculate_ignoring_status(db, goal_id) ==
  IF get_by_id(db, goal_id) = Absent THEN db
  ELSE IF should_block(db, goal_id) THEN update_goal(db, goal_id, "blocked")
  ELSE IF db.status[goal_id] = "blocked" THEN update_goal(db, goal_id, "todo")
  ELSE db

recalculate_goal_status_after_dependency_change(db, goal_id) ==
  IF get_by_id(db, goal_id) = Absent THEN db
  ELSE IF should_block(db, goal_id) /\ db.status[goal_id] = "todo"
    THEN update_goal(db, goal_id, "blocked")
  ELSE IF ~should_block(db, goal_id) /\ db.status[goal_id] = "blocked"
    THEN update_goal(db, goal_id, "todo")
  ELSE db

\* the for loop of recalculate_dependent_goals_status over the rows `rows`
RECURSIVE recalculate_each(_, _)
recalculate_each(db, rows) ==
  IF rows = {} THEN db
  ELSE LET dependency == CHOOSE r \in rows : TRUE
           next == IF /\ dependency.dependency_type = "requires"
                      /\ get_by_id(db, dependency.dependent_goal_id) # Absent
                   THEN recalculate_goal_status_after_dependency_change(
                          db, dependency.dependent_goal_id)
                   ELSE db
       IN recalculate_each(next, rows \ {dependency})

\* recalculate_dependent_goals_status that recomputes every goal
recalculate_every_goal(db, parent_goal_id) ==
  IF get_by_id(db, parent_goal_id) = Absent THEN db
  ELSE recalculate_each(db, {Dependency(parent_goal_id, g, "requires", 1) : g \in AllGoals})

recalculate_dependent_goals_status(db, parent_goal_id) ==
  IF get_by_id(db, parent_goal_id) = Absent THEN db
  ELSE recalculate_each(db, get_goal_dependents(db, parent_goal_id))

\* GoalDependency.__table_args__ and the foreign keys, checked by the flush
\* the table without the no_self_dependency check
no_self_dependency_off(row) == TRUE

no_self_dependency(row) == row.parent_goal_id # row.dependent_goal_id

valid_strength(row) == row.strength \in 1..5

\* the unique constraint with dependency_type among its columns
unique_goal_dependency_by_type(db, row) ==
  ~\E dep \in db.deps : /\ dep.parent_goal_id = row.parent_goal_id
                        /\ dep.dependent_goal_id = row.dependent_goal_id
                        /\ dep.dependency_type = row.dependency_type

unique_goal_dependency(db, row) ==
  ~\E dep \in db.deps : /\ dep.parent_goal_id = row.parent_goal_id
                        /\ dep.dependent_goal_id = row.dependent_goal_id

\* the name of the constraint the INSERT violates, or "none"
flush_dependency(db, row) ==
  IF get_by_id(db, row.parent_goal_id) = Absent
     \/ get_by_id(db, row.dependent_goal_id) = Absent THEN "foreign_key"
  ELSE IF ~no_self_dependency(row) THEN "no_self_dependency"
  ELSE IF ~valid_strength(row) THEN "valid_strength"
  ELSE IF ~unique_goal_dependency(db, row) THEN "unique_goal_dependency"
  ELSE "none"

\* [raised, db]: raised is "none" or the IntegrityError of the flush
create_dependency(db, p, d, t, n) ==
  LET row == Dependency(p, d, t, n)
      err == flush_dependency(db, row)
  IN IF err # "none" THEN [raised |-> err, db |-> db]
     ELSE [raised |-> "none",
           db |-> recalculate_goal_status_after_dependency_change(
                    Db(db.status, db.deps \cup {row}), d)]

\* delete_dependency without the recomputation of the dependent goal
delete_dependency_no_recalculate(db, dependency) ==
  Db(db.status, db.deps \ {dependency})

delete_dependency(db, dependency) ==
  recalculate_goal_status_after_dependency_change(
    Db(db.status, db.deps \ {dependency}), dependency.dependent_goal_id)

\* ------------------------------------------------------------ unit of work
\* UnitOfWork.rollback: the session is back at the last commit
rollback(db, com) == com

\* UnitOfWork.commit
commit(db) == db

\* ------------------------------------------------------------------ tools
GoalCategory ==
  {"career", "health", "learning", "finance", "personal", "social", "creative"}

\* category arguments: a member of the enum, and a string outside it
CategoryInputs == {"learning", "sports"}

\* status arguments: the enum, and a string outside it
StatusInputs == GoalStatus \cup {"paused"}

\* dependency_type arguments of the calls that are made: requires, one of the
\* four other members of the enum (the code only ever compares a type with
\* requires), and a string outside the enum
TypeInputs == {"requires", "blocks", "depends"}

\* the value of a field a return mapping does not carry
NoGoal == MaxGoals + 2

\* a tool's return value: error is "none" for the success mapping, otherwise
\* it stands for the text under the "error" key; a success mapping carries
\* the fields goal / dependent / value, an error mapping does not
Ok(op, goal, dependent, value) ==
  [op |-> op, error |-> "none", goal |-> goal, dependent |-> dependent, value |-> value]

Err(op, error) ==
  [op |-> op, error |-> error, goal |-> NoGoal, dependent |-> NoGoal, value |-> "-"]

\* uuid4 of a new Goal row: an id no row has
NewIds(db, com) ==
  {g \in Goals : db.status[g] = Absent /\ com.status[g] = Absent}

create_goal(db, com, category) ==
  IF category \notin GoalCategory
    THEN [db |-> db, ret |-> Err("create_goal", "Invalid category")]
  ELSE LET goal == CHOOSE g \in NewIds(db, com) : \A h \in NewIds(db, com) : g <= h
       IN [db |-> update_goal(db, goal, "todo"),
           ret |-> Ok("create_goal", goal, NoGoal, "todo")]

\* update_goal_status without the GoalStatus(status) validation
update_goal_status_unvalidated(db, com, goal_id, new_status) ==
  IF goal_id = Malformed
    THEN [db |-> rollback(db, com),
          ret |-> Err("update_goal_status", "Failed to update goal status")]
  ELSE IF get_by_id(db, goal_id) = Absent \/ user_id(goal_id) # SessionUser
    THEN [db |-> db, ret |-> Err("update_goal_status", "not found or not owned by user")]
  ELSE [db |-> update_goal(db, goal_id, new_status),
        ret |-> Ok("update_goal_status", goal_id, NoGoal, new_status)]

\* update_goal_status without the recomputation of the dependents of a goal
\* that is done or canceled
update_goal_status_no_propagation(db, com, goal_id, new_status) ==
  IF goal_id = Malformed
    THEN [db |-> rollback(db, com),
          ret |-> Err("update_goal_status", "Failed to update goal status")]
  ELSE IF get_by_id(db, goal_id) = Absent \/ user_id(goal_id) # SessionUser
    THEN [db |-> db, ret |-> Err("update_goal_status", "not found or not owned by user")]
  ELSE IF new_status \notin GoalStatus
    THEN [db |-> db, ret |-> Err("update_goal_status", "Invalid status")]
  ELSE LET updated == update_goal(db, goal_id, new_status)
           after == IF new_status = "todo"
                      THEN recalculate_goal_status_after_dependency_change(updated, goal_id)
                    ELSE updated
       IN [db |-> after, ret |-> Ok("update_goal_status", goal_id, NoGoal, new_status)]

\* update_goal_status without the recomputation of a goal set to todo
update_goal_status_no_reblock(db, com, goal_id, new_status) ==
  IF goal_id = Malformed
    THEN [db |-> rollback(db, com),
          ret |-> Err("update_goal_status", "Failed to update goal status")]
  ELSE IF get_by_id(db, goal_id) = Absent \/ user_id(goal_id) # SessionUser
    THEN [db |-> db, ret |-> Err("update_goal_status", "not found or not owned by user")]
  ELSE IF new_status \notin GoalStatus
    THEN [db |-> db, ret |-> Err("update_goal_status", "Invalid status")]
  ELSE LET updated == update_goal(db, goal_id, new_status)
           after == IF new_status \in {"done", "canceled"}
                      THEN recalculate_dependent_goals_status(updated, goal_id)
                    ELSE updated
       IN [db |-> after, ret |-> Ok("update_goal_status", goal_id, NoGoal, new_status)]

update_goal_status(db, com, goal_id, new_status) ==
  IF goal_id = Malformed
    THEN [db |-> rollback(db, com),
          ret |-> Err("update_goal_status", "Failed to update goal status")]
  ELSE IF get_by_id(db, goal_id) = Absent \/ user_id(goal_id) # SessionUser
    THEN [db |-> db, ret |-> Err("update_goal_status", "not found or not owned by user")]
  ELSE IF new_status \notin GoalStatus
    THEN [db |-> db, ret |-> Err("update_goal_status", "Invalid status")]
  ELSE LET updated == update_goal(db, goal_id, new_status)
           after == IF new_status \in {"done", "canceled"}
                      THEN recalculate_dependent_goals_status(updated, goal_id)
                    ELSE IF new_status = "todo"
                      THEN recalculate_goal_status_after_dependency_change(updated, goal_id)
                    ELSE updated
       IN [db |-> after, ret |-> Ok("update_goal_status", goal_id, NoGoal, new_status)]

\* strength = max(1, min(5, strength))
clamp_strength(n) ==
  LET capped == IF n < 5 THEN n ELSE 5 IN IF capped > 1 THEN capped ELSE 1

create_goal_dependency(db, com, parent_goal_id, dependent_goal_id, dependency_type, n) ==
  IF dependency_type \notin DependencyType
    THEN [db |-> db, ret |-> Err("create_goal_dependency", "Invalid dependency_type")]
  ELSE IF parent_goal_id = Malformed \/ dependent_goal_id = Malformed
    THEN [db |-> rollback(db, com),
          ret |-> Err("create_goal_dependency", "Failed to create goal dependency")]
  ELSE IF get_by_id(db, parent_goal_id) = Absent \/ user_id(parent_goal_id) # SessionUser
    THEN [db |-> db,
          ret |-> Err("create_goal_dependency", "Parent goal not found or not owned by user")]
  ELSE IF get_by_id(db, dependent_goal_id) = Absent
          \/ user_id(dependent_goal_id) # SessionUser
    THEN [db |-> db,
          ret |-> Err("create_goal_dependency", "Dependent goal not found or not owned by user")]
  ELSE LET made == create_dependency(db, parent_goal_id, dependent_goal_id,
                                     dependency_type, clamp_strength(n))
       IN IF made.raised # "none"
            THEN [db |-> rollback(db, com),
                  ret |-> Err("create_goal_dependency", made.raised)]
          ELSE [db |-> made.db,
                ret |-> Ok("create_goal_dependency", parent_goal_id, dependent_goal_id,
                           dependency_type)]

\* --------------------------------------------------------------- registry
\* names in LLMToolRegistry._functions that the model covers
FunctionNames == {"create_goal", "update_goal_status", "create_goal_dependency"}

\* a name that was never registered
Unregistered == "no_such_tool"

\* call["arguments"]: a mapping, a JSON string of a mapping, a string that is
\* no JSON, or a mapping whose keys are not the function's parameters
ArgKinds == {"mapping", "json", "bad_json", "wrong_keys"}

NoArgs == [none |-> TRUE]

\* the keyword arguments a call of function_name can carry
ArgsFor(function_name) ==
  IF function_name = "create_goal" THEN [category : CategoryInputs]
  ELSE IF function_name = "update_goal_status"
    THEN [goal_id : GoalRefs, status : StatusInputs]
  ELSE IF function_name = "create_goal_dependency"
    THEN [parent_goal_id : GoalRefs, dependent_goal_id : GoalRefs,
          dependency_type : TypeInputs, strength : StrengthInputs]
  ELSE {NoArgs}

\* the tool_calls entries the model can return
Calls ==
  {c \in [name : FunctionNames \cup {Unregistered}, kind : ArgKinds,
          value : UNION {ArgsFor(f) : f \in FunctionNames \cup {Unregistered}}] :
     c.value \in (IF c.kind \in {"mapping", "json"} THEN ArgsFor(c.name) ELSE {NoArgs})}

\* call_function without the lookup of the name in _functions
call_function_no_lookup(db, com, function_name, kind, arguments) ==
  IF function_name \notin FunctionNames \/ kind = "wrong_keys"
    THEN [db |-> db, ret |-> Err(function_name, "Error calling")]
  ELSE IF function_name = "create_goal"
    THEN create_goal(db, com, arguments.category)
  ELSE IF function_name = "update_goal_status"
    THEN update_goal_status(db, com, arguments.goal_id, arguments.status)
  ELSE create_goal_dependency(db, com, arguments.parent_goal_id,
         arguments.dependent_goal_id, arguments.dependency_type, arguments.strength)

\* kind tells whether function(**arguments) binds: a TypeError is caught by
\* the except clause like any exception of the function
call_function(db, com, function_name, kind, arguments) ==
  IF function_name \notin FunctionNames
    THEN [db |-> db, ret |-> Err(function_name, "Unknown function")]
  ELSE IF kind = "wrong_keys"
    THEN [db |-> db, ret |-> Err(function_name, "Error calling")]
  ELSE IF function_name = "create_goal"
    THEN create_goal(db, com, arguments.category)
  ELSE IF function_name = "update_goal_status"
    THEN update_goal_status(db, com, arguments.goal_id, arguments.status)
  ELSE create_goal_dependency(db, com, arguments.parent_goal_id,
         arguments.dependent_goal_id, arguments.dependency_type, arguments.strength)

\* the result of a results entry that has no "result" key
NoResult == Err("none", "none")

\* json.loads of a string argument
json_loads(call) ==
  IF call.kind = "bad_json" THEN [raised |-> TRUE, value |-> NoArgs]
  ELSE [raised |-> FALSE, value |-> call.value]

\* process_function_calls without the except clause of json.loads: the
\* JSONDecodeError leaves the loop
process_function_call_json_raises(db, com, call) ==
  IF call.kind = "bad_json"
    THEN [db |-> db, entry |-> [function |-> call.name, error |-> "raised",
                                result |-> NoResult]]
  ELSE LET r == call_function(db, com, call.name,
                              IF call.kind = "json" THEN "mapping" ELSE call.kind,
                              call.value)
       IN [db |-> r.db,
           entry |-> [function |-> call.name, error |-> "none", result |-> r.ret]]

\* process_function_calls with every call run against the rows as they were
\* before the batch instead of the rows the previous call left
process_function_call_on_snapshot(db, com, call) ==
  LET is_str == call.kind \in {"json", "bad_json"}
      parsed == IF is_str THEN json_loads(call) ELSE [raised |-> FALSE, value |-> call.value]
  IN IF parsed.raised
       THEN [db |-> db,
             entry |-> [function |-> call.name, error |-> "Invalid JSON arguments",
                        result |-> NoResult]]
     ELSE LET r == call_function(com, com, call.name,
                                 IF is_str THEN "mapping" ELSE call.kind, parsed.value)
          IN [db |-> r.db,
              entry |-> [function |-> call.name, error |-> "none", result |-> r.ret]]

\* one iteration of the loop of process_function_calls: [db, entry]
process_function_call(db, com, call) ==
  LET is_str == call.kind \in {"json", "bad_json"}
      parsed == IF is_str THEN json_loads(call) ELSE [raised |-> FALSE, value |-> call.value]
  IN IF parsed.raised
       THEN [db |-> db,
             entry |-> [function |-> call.name, error |-> "Invalid JSON arguments",
                        result |-> NoResult]]
     ELSE LET r == call_function(db, com, call.name,
                                 IF is_str THEN "mapping" ELSE call.kind, parsed.value)
          IN [db |-> r.db,
              entry |-> [function |-> call.name, error |-> "none", result |-> r.ret]]

\* ----------------------------------------------------------- orchestrator
Apology == "I encountered an error while processing your request. Please try again."

NoResponse == [content |-> "-", tool_calls |-> 0, tool_results |-> <<>>, status |-> "none"]

\* generate_response with the exception passed on to the caller
error_response_reraised ==
  [content |-> "-", tool_calls |-> 0, tool_results |-> <<>>, status |-> "raised"]

\* the except clause of generate_response
error_response ==
  [content |-> Apology, tool_calls |-> 0, tool_results |-> <<>>, status |-> "error"]

\* the return of generate_response after its try block
success_response(content, calls, tool_results) ==
  [content |-> content, tool_calls |-> calls, tool_results |-> tool_results,
   status |-> "success"]

\* ----------------------------------------------------------- session cache
\* user ids the cache is called with
Users == {"user-1", "user-2"}

\* message dicts: the content distinguishes them
Messages == {[role |-> "user", content |-> c] : c \in {"msg-a", "msg-b"}}

\* json.dumps(message, ensure_ascii=True): the payload is a string
json_dumps(message) == [json |-> message]

\* json.loads(entry) of a payload
json_loads_entry(entry) == entry.json

\* the value a key that does not exist has in meta
NoMeta == [last_active_at |-> 0]

\* RPUSH key value
rpush(list, value) == Append(list, value)

\* LTRIM 0 (n - 1): the first n elements are kept
ltrim_first(list, n) ==
  IF Len(list) <= n THEN list ELSE SubSeq(list, 1, n)

\* LTRIM key -n -1: the last n elements are kept
ltrim(list, n) ==
  IF Len(list) <= n THEN list ELSE SubSeq(list, Len(list) - n + 1, Len(list))

\* SessionCache.fetch: LRANGE 0 -1, each entry through json.loads
fetch(cache, user) ==
  [i \in 1..Len(cache[user]) |-> json_loads_entry(cache[user][i])]

\* ------------------------------------------------- goal-field update tools
\* title arguments
TitleInputs == {"Run", " Read "}

\* str.strip()
strip(text) == IF text = " Read " THEN "Read" ELSE text

\* priority arguments: below the range, and inside it
PriorityInputs == {0, 4}

\* GoalRepository.update_goal_title: [goal, fields], goal is Absent for None
repo_update_goal_title(db, fs, goal_id, title) ==
  IF get_by_id(db, goal_id) = Absent THEN [goal |-> Absent, fields |-> fs]
  ELSE [goal |-> "found", fields |-> [fs EXCEPT ![goal_id].title = strip(title)]]

\* GoalRepository.update_goal_priority
repo_update_goal_priority(db, fs, goal_id, priority) ==
  IF get_by_id(db, goal_id) = Absent THEN [goal |-> Absent, fields |-> fs]
  ELSE [goal |-> "found",
        fields |-> [fs EXCEPT ![goal_id].priority = clamp_strength(priority)]]

\* GoalTools.update_goal_title: [fields, ret]
update_goal_title(db, fs, goal_id, title) ==
  IF goal_id = Malformed
    THEN [fields |-> fs, ret |-> Err("update_goal_title", "Failed to update goal title")]
  ELSE LET updated == repo_update_goal_title(db, fs, goal_id, title)
       IN IF updated.goal = Absent \/ user_id(goal_id) # SessionUser
            THEN [fields |-> updated.fields,
                  ret |-> Err("update_goal_title", "not found or not owned by user")]
          ELSE [fields |-> updated.fields,
                ret |-> Ok("update_goal_title", goal_id, NoGoal,
                           updated.fields[goal_id].title)]

\* GoalTools.update_goal_priority: [fields, ret]
update_goal_priority(db, fs, goal_id, priority) ==
  IF goal_id = Malformed
    THEN [fields |-> fs,
          ret |-> Err("update_goal_priority", "Failed to update goal priority")]
  ELSE LET updated == repo_update_goal_priority(db, fs, goal_id, priority)
       IN IF updated.goal = Absent \/ user_id(goal_id) # SessionUser
            THEN [fields |-> updated.fields,
                  ret |-> Err("update_goal_priority", "not found or not owned by user")]
          ELSE [fields |-> updated.fields,
                ret |-> Ok("update_goal_priority", goal_id, NoGoal, "-")]

\* --------------------------------------------------------- saved messages
\* chat ids
Chats == {"chat-1", "chat-2"}

\* the chat of a request that has not begun
NoChat == "-"

Requests == 1..MaxRequests

NoRequest == 0

\* the largest element of a set of numbers, 0 for the empty set
Max(numbers) ==
  IF numbers = {} THEN 0 ELSE CHOOSE n \in numbers : \A m \in numbers : m <= n

\* select coalesce(max(Message.seq), 0) + 1 where chat_id = ..., on the rows
\* the session can see
get_next_sequence(rows, chat_id) ==
  Max({row.seq : row \in {x \in rows : x.chat_id = chat_id}}) + 1

\* the Message row a request inserts
Message(request, t) ==
  [chat_id |-> t.chat, seq |-> t.next_seq, id |-> <<request, t.saves + 1>>]

\* ------------------------------------------------------ connection manager
Sockets == 1..MaxSockets

\* the value of a chat_id that is no key of active_connections
NoSocket == 0

\* ConnectionManager.connect
connect(connections, chat_id, websocket) ==
  [connections EXCEPT ![chat_id] = websocket]

\* ConnectionManager.disconnect
disconnect(connections, chat_id) ==
  IF connections[chat_id] # NoSocket
    THEN [connections EXCEPT ![chat_id] = NoSocket]
  ELSE connections

\* ConnectionManager.is_active
is_active(connections, chat_id) == connections[chat_id] # NoSocket

\* what one pass of the receive loop can do and go on: answer the message,
\* report a message without content, skip an empty content, report a failure
\* of the processing
LoopOutcomes == {"replied", "invalid_message_format", "empty", "message_processing_failed"}

\* exceptions other than WebSocketDisconnect that leave the receive loop: the
\* content is no string (AttributeError on strip), the frame is no JSON
\* (receive_json), a send_json outside the inner try or inside its except
\* clause fails
Escaping == {"content_not_string", "invalid_json", "send_failed"}

\* ----------------------------------------------------------- turn context
\* ChatMessage(role, content)
ChatMessage(role, content) == [role |-> role, content |-> content]

\* stands for SYSTEM_PROMPT and the sentence appended to it
SystemContent == "system prompt"

\* user_message arguments
UserMessages == {"hello", "plan my week"}

\* the i-th message of a chat: the user and the assistant take turns
HistoryMessage(i) ==
  ChatMessage(IF i % 2 = 1 THEN "user" ELSE "assistant", i)

\* messages[-20:] if len(messages) > 20 else messages
HistoryWindow == 20

\* the window that starts one message too early
recent_messages_off_by_one(history) ==
  IF Len(history) > HistoryWindow
    THEN SubSeq(history, Len(history) - HistoryWindow, Len(history))
  ELSE history

recent_messages(history) ==
  IF Len(history) > HistoryWindow
    THEN SubSeq(history, Len(history) - HistoryWindow + 1, Len(history))
  ELSE history

_build_enhanced_context(history, user_message) ==
  <<ChatMessage("system", SystemContent)>>
    \o recent_messages(history)
    \o <<ChatMessage("user", user_message)>>

\* the context variable before the first call
NoContext == <<>>

InitRest ==
  /\ messages = <<>>
  /\ context = NoContext
  /\ fields = [g \in AllGoals |-> [title |-> "Run", priority |-> 3]]
  /\ field_ret = Err("none", "none")
  /\ msg_rows = {}
  /\ chat_last_seq = [c \in Chats |-> 0]
  /\ chat_lock = [c \in Chats |-> NoRequest]
  /\ tx = [r \in Requests |-> [pc |-> "idle", chat |-> NoChat, next_seq |-> 0, saves |-> 0]]
  /\ active_connections = [c \in Chats |-> NoSocket]
  /\ ws = [s \in Sockets |-> [state |-> "new", chat |-> NoChat, last |-> "none"]]

InitMemory ==
  /\ session = [u \in Users |-> <<>>]
  /\ meta = [u \in Users |-> NoMeta]
  /\ appended = [u \in Users |-> <<>>]
  /\ live = [u \in Users |-> 0]
  /\ InitRest

\* ------------------------------------------------------------------ state
Now == Db(status, deps)

Init ==
  /\ status = [g \in AllGoals |->
                 IF g = ForeignGoal \/ g <= InitGoals THEN "todo" ELSE Absent]
  /\ deps = {}
  /\ committed = Db(status, deps)
  /\ ret = Err("none", "none")
  /\ nops = 0
  /\ pc = "idle"
  /\ n_calls = 0
  /\ tool_calls = <<>>
  /\ results = <<>>
  /\ llm_raised = "none"
  /\ llm_calls = 0
  /\ llm_log = <<>>
  /\ response = NoResponse
  /\ InitMemory

\* the step of one tool: r is what the tool computed
Apply(r) ==
  /\ nops < MaxOps
  /\ status' = r.db.status
  /\ deps' = r.db.deps
  /\ ret' = r.ret
  /\ nops' = nops + 1
  /\ UNCHANGED <<committed, turn, memory>>

CreateGoal ==
  /\ pc = "idle"
  /\ NewIds(Now, committed) # {}
  /\ \E category \in CategoryInputs : Apply(create_goal(Now, committed, category))

UpdateGoalStatus ==
  /\ pc = "idle"
  /\ \E goal_id \in GoalRefs, new_status \in StatusInputs :
       Apply(update_goal_status(Now, committed, goal_id, new_status))

CreateGoalDependency ==
  /\ pc = "idle"
  /\ \E p \in GoalRefs, d \in GoalRefs, t \in TypeInputs, n \in StrengthInputs :
       Apply(create_goal_dependency(Now, committed, p, d, t, n))

\* GoalRepository.delete_dependency called on a row of the table
DeleteDependency ==
  /\ pc = "idle"
  /\ \E dependency \in deps :
       Apply([db |-> delete_dependency(Now, dependency),
              ret |-> Ok("delete_dependency", dependency.parent_goal_id,
                         dependency.dependent_goal_id, dependency.dependency_type)])

\* GoalRepository.recalculate_goal_status_after_dependency_change called directly
Recalculate ==
  /\ pc = "idle"
  /\ \E g \in AllGoals :
       Apply([db |-> recalculate_goal_status_after_dependency_change(Now, g),
              ret |-> Ok("recalculate_goal_status_after_dependency_change", NoGoal, NoGoal, "-")])

\* GoalRepository.recalculate_dependent_goals_status called directly
RecalculateDependents ==
  /\ pc = "idle"
  /\ \E g \in AllGoals :
       Apply([db |-> recalculate_dependent_goals_status(Now, g),
              ret |-> Ok("recalculate_dependent_goals_status", NoGoal, NoGoal, "-")])

\* the caller's commit at the end of a request
Commit ==
  /\ pc = "idle"
  /\ nops < MaxOps
  /\ committed # Now
  /\ committed' = commit(Now)
  /\ ret' = Ok("commit", NoGoal, NoGoal, "-")
  /\ nops' = nops + 1
  /\ UNCHANGED <<status, deps, turn, memory>>

Next ==
  \/ CreateGoal
  \/ UpdateGoalStatus
  \/ CreateGoalDependency
  \/ DeleteDependency
  \/ Recalculate
  \/ RecalculateDependents
  \/ Commit

Spec == Init /\ [][Next]_vars

\* ------------------------------------------- operations on an existing graph
\* edges create_goal_dependency can have created between the user's goals
\* before the first call: one per pair, requires or another type
InitEdges ==
  {Dependency(p, d, t, 1) : p \in Goals, d \in Goals, t \in {"requires", "blocks"}}

InitGraphs ==
  {ds \in SUBSET {e \in InitEdges : e.parent_goal_id < e.dependent_goal_id} :
     /\ Cardinality(ds) <= MaxInitDeps
     /\ \A a \in ds, b \in ds :
          (a.parent_goal_id = b.parent_goal_id
           /\ a.dependent_goal_id = b.dependent_goal_id) => a = b}

\* every goal of the user was created, the edges of one graph were created
\* while all goals were todo (each requires edge blocked its dependent), and
\* the session was committed
InitGraph ==
  /\ deps \in InitGraphs
  /\ status = [g \in AllGoals |->
                 IF \E dep \in deps : /\ dep.dependent_goal_id = g
                                      /\ dep.dependency_type = "requires"
                 THEN "blocked" ELSE "todo"]
  /\ committed = Db(status, deps)
  /\ ret = Err("none", "none")
  /\ nops = 0
  /\ pc = "idle"
  /\ n_calls = 0
  /\ tool_calls = <<>>
  /\ results = <<>>
  /\ llm_raised = "none"
  /\ llm_calls = 0
  /\ llm_log = <<>>
  /\ response = NoResponse
  /\ InitMemory

GraphUpdateGoalStatus == nops < MaxGraphOps /\ UpdateGoalStatus

GraphDeleteDependency == nops < MaxGraphOps /\ DeleteDependency

GraphRecalculate == nops < MaxGraphOps /\ Recalculate

GraphRecalculateDependents == nops < MaxGraphOps /\ RecalculateDependents

NextGraph ==
  \/ GraphUpdateGoalStatus
  \/ GraphDeleteDependency
  \/ GraphRecalculate
  \/ GraphRecalculateDependents

SpecGraph == InitGraph /\ [][NextGraph]_vars

\* ------------------------------------------------ the session cache at work
\* SessionCache.append: one MULTI/EXEC transaction
CacheAppend ==
  \E user \in Users, message \in Messages :
    /\ Len(appended[user]) < MaxAppends
    /\ session' = [session EXCEPT
                     ![user] = ltrim(rpush(session[user], json_dumps(message)), MaxMessages)]
    /\ meta' = [meta EXCEPT ![user] = [last_active_at |-> Len(appended[user]) + 1]]
    /\ appended' = [appended EXCEPT ![user] = Append(appended[user], message)]
    /\ live' = [live EXCEPT ![user] = live[user] + 1]
    /\ UNCHANGED <<status, deps, committed, ret, nops, turn, rest>>

\* ttl_seconds pass without an append: Redis drops both keys of the user
CacheExpire ==
  \E user \in Users :
    /\ meta[user] # NoMeta
    /\ session' = [session EXCEPT ![user] = <<>>]
    /\ meta' = [meta EXCEPT ![user] = NoMeta]
    /\ live' = [live EXCEPT ![user] = 0]
    /\ UNCHANGED <<appended, status, deps, committed, ret, nops, turn, rest>>

\* SessionCache.clear
CacheClear ==
  \E user \in Users :
    /\ appended[user] # <<>>
    /\ session' = [session EXCEPT ![user] = <<>>]
    /\ meta' = [meta EXCEPT ![user] = NoMeta]
    /\ live' = [live EXCEPT ![user] = 0]
    /\ UNCHANGED <<appended, status, deps, committed, ret, nops, turn, rest>>

NextCache ==
  \/ CacheAppend
  \/ CacheExpire
  \/ CacheClear

SpecCache == Init /\ [][NextCache]_vars

\* ---------------------------------------------------- the context of a turn
\* the chat grows by one message
HistoryGrows ==
  /\ Len(messages) < MaxHistory
  /\ messages' = Append(messages, HistoryMessage(Len(messages) + 1))
  /\ UNCHANGED <<context, base, goal_fields, saving, sockets>>

\* generate_response builds the context of the turn
BuildContext ==
  /\ \E user_message \in UserMessages :
       context' = _build_enhanced_context(messages, user_message)
  /\ UNCHANGED <<messages, base, goal_fields, saving, sockets>>

NextContext ==
  \/ HistoryGrows
  \/ BuildContext

SpecContext == Init /\ [][NextContext]_vars

\* ----------------------------------------- the goal-field tools at work
UpdateGoalTitle ==
  /\ \E goal_id \in GoalRefs, title \in TitleInputs :
       LET r == update_goal_title(Now, fields, goal_id, title)
       IN fields' = r.fields /\ field_ret' = r.ret
  /\ UNCHANGED <<base, convo, saving, sockets>>

UpdateGoalPriority ==
  /\ \E goal_id \in GoalRefs, priority \in PriorityInputs :
       LET r == update_goal_priority(Now, fields, goal_id, priority)
       IN fields' = r.fields /\ field_ret' = r.ret
  /\ UNCHANGED <<base, convo, saving, sockets>>

NextFields ==
  \/ UpdateGoalTitle
  \/ UpdateGoalPriority

SpecFields == Init /\ [][NextFields]_vars

\* -------------------------------------------------- _save_message at work
\* the SELECT of the next sequence number: it sees the committed rows
SaveRead ==
  \E request \in Requests, chat_id \in Chats :
    /\ tx[request].pc = "idle"
    /\ tx[request].saves < MaxSaves
    /\ tx[request].chat \in {NoChat, chat_id}
    /\ tx' = [tx EXCEPT ![request] =
                [@ EXCEPT !.pc = "read", !.chat = chat_id,
                          !.next_seq = get_next_sequence(msg_rows, chat_id)]]
    /\ UNCHANGED <<msg_rows, chat_last_seq, chat_lock, base, convo, goal_fields, sockets>>

\* db.add(message), flush, refresh: the row is in the request's transaction
SaveInsert ==
  \E request \in Requests :
    /\ tx[request].pc = "read"
    /\ tx' = [tx EXCEPT ![request].pc = "inserted"]
    /\ UNCHANGED <<msg_rows, chat_last_seq, chat_lock, base, convo, goal_fields, sockets>>

\* the UPDATE of the chat row: it waits for the row lock of another request
SaveUpdateChat ==
  \E request \in Requests :
    /\ tx[request].pc = "inserted"
    /\ chat_lock[tx[request].chat] = NoRequest
    /\ chat_lock' = [chat_lock EXCEPT ![tx[request].chat] = request]
    /\ tx' = [tx EXCEPT ![request].pc = "updated"]
    /\ UNCHANGED <<msg_rows, chat_last_seq, base, convo, goal_fields, sockets>>

\* db.commit(): the row and the chat's last_seq become visible
SaveCommit ==
  \E request \in Requests :
    /\ tx[request].pc = "updated"
    /\ msg_rows' = msg_rows \cup {Message(request, tx[request])}
    /\ chat_last_seq' = [chat_last_seq EXCEPT ![tx[request].chat] = tx[request].next_seq]
    /\ chat_lock' = [chat_lock EXCEPT ![tx[request].chat] = NoRequest]
    /\ tx' = [tx EXCEPT ![request] = [@ EXCEPT !.pc = "idle", !.saves = @ + 1]]
    /\ UNCHANGED <<base, convo, goal_fields, sockets>>

NextSaving ==
  \/ SaveRead
  \/ SaveInsert
  \/ SaveUpdateChat
  \/ SaveCommit

SpecSaving == Init /\ [][NextSaving]_vars

\* ------------------------------------------------ chat_websocket at work
\* websocket.accept() and connection_manager.connect(chat_id, websocket)
WsConnect ==
  \E websocket \in Sockets, chat_id \in Chats :
    /\ ws[websocket].state = "new"
    /\ ws' = [ws EXCEPT ![websocket] = [state |-> "open", chat |-> chat_id, last |-> "none"]]
    /\ active_connections' = connect(active_connections, chat_id, websocket)
    /\ UNCHANGED <<base, convo, goal_fields, saving>>

\* one pass of the receive loop that ends in the next receive_json
WsReceive ==
  \E websocket \in Sockets, outcome \in LoopOutcomes :
    /\ ws[websocket].state = "open"
    /\ ws[websocket].last # outcome
    /\ ws' = [ws EXCEPT ![websocket].last = outcome]
    /\ UNCHANGED <<active_connections, base, convo, goal_fields, saving>>

\* WebSocketDisconnect leaves the loop (the client went away, or a send
\* raised it): the except clause unregisters the chat
WsDisconnect ==
  \E websocket \in Sockets :
    /\ ws[websocket].state = "open"
    /\ ws' = [ws EXCEPT ![websocket] = [@ EXCEPT !.state = "ended", !.last = "disconnect"]]
    /\ active_connections' = disconnect(active_connections, ws[websocket].chat)
    /\ UNCHANGED <<base, convo, goal_fields, saving>>

\* another exception leaves the loop: no except clause matches it and the
\* handler ends
WsEscape ==
  \E websocket \in Sockets, exception \in Escaping :
    /\ ws[websocket].state = "open"
    /\ ws' = [ws EXCEPT ![websocket] = [@ EXCEPT !.state = "ended", !.last = exception]]
    /\ UNCHANGED <<active_connections, base, convo, goal_fields, saving>>

NextSockets ==
  \/ WsConnect
  \/ WsReceive
  \/ WsDisconnect
  \/ WsEscape

SpecSockets == Init /\ [][NextSockets]_vars

\* ---------------------------------------------- one turn of the orchestrator
\* a call of llm_client.<method>, made when the results list is as long as it is
ModelCall(method) == [method |-> method, tools_done |-> Len(results)]

\* generate_response up to the choice of the branch: hasattr(llm_client,
\* "generate_with_tools") or not
GenerateResponse ==
  /\ pc = "idle"
  /\ \E has_tools \in BOOLEAN :
       pc' = IF has_tools THEN "first_call" ELSE "regular_call"
  /\ UNCHANGED <<status, deps, committed, ret, nops, n_calls, tool_calls, results,
                 llm_raised, llm_calls, llm_log, response, memory>>

\* the generate_with_tools call of _generate_with_tools
FirstCall ==
  /\ pc = "first_call"
  /\ llm_calls' = llm_calls + 1
  /\ llm_log' = Append(llm_log, ModelCall("generate_with_tools"))
  /\ \/ /\ llm_raised' = "first"
        /\ response' = error_response
        /\ pc' = "returned"
        /\ UNCHANGED n_calls
     \/ /\ response' = success_response("first", 0, <<>>)
        /\ pc' = "returned"
        /\ UNCHANGED <<llm_raised, n_calls>>
     \/ /\ \E k \in 1..MaxCalls : n_calls' = k
        /\ pc' = "tools"
        /\ UNCHANGED <<llm_raised, response>>
  /\ UNCHANGED <<status, deps, committed, ret, nops, tool_calls, results, memory>>

\* one iteration of the loop of process_function_calls
ProcessCall ==
  /\ pc = "tools"
  /\ Len(results) < n_calls
  /\ \E call \in Calls :
       LET r == process_function_call(Now, committed, call)
       IN /\ call.name = "create_goal" => NewIds(Now, committed) # {}
          /\ status' = r.db.status
          /\ deps' = r.db.deps
          /\ results' = Append(results, r.entry)
          /\ tool_calls' = Append(tool_calls, [name |-> call.name, kind |-> call.kind])
  /\ UNCHANGED <<committed, ret, nops, pc, n_calls, llm_raised, llm_calls, llm_log, response,
                 memory>>

\* the follow-up call made as soon as one tool call has returned
FollowupCallEarly ==
  /\ pc = "tools"
  /\ Len(results) >= 1
  /\ llm_calls' = llm_calls + 1
  /\ llm_log' = Append(llm_log, ModelCall("generate"))
  /\ \/ /\ llm_raised' = "followup"
        /\ response' = error_response
     \/ /\ response' = success_response("followup", n_calls, results)
        /\ UNCHANGED llm_raised
  /\ pc' = "returned"
  /\ UNCHANGED <<status, deps, committed, ret, nops, n_calls, tool_calls, results,
                 memory>>

\* the generate call after the tool results
FollowupCall ==
  /\ pc = "tools"
  /\ Len(results) = n_calls
  /\ llm_calls' = llm_calls + 1
  /\ llm_log' = Append(llm_log, ModelCall("generate"))
  /\ \/ /\ llm_raised' = "followup"
        /\ response' = error_response
     \/ /\ response' = success_response("followup", n_calls, results)
        /\ UNCHANGED llm_raised
  /\ pc' = "returned"
  /\ UNCHANGED <<status, deps, committed, ret, nops, n_calls, tool_calls, results,
                 memory>>

\* the generate call of _generate_with_analysis
RegularCall ==
  /\ pc = "regular_call"
  /\ llm_calls' = llm_calls + 1
  /\ llm_log' = Append(llm_log, ModelCall("generate"))
  /\ \/ /\ llm_raised' = "first"
        /\ response' = error_response
        /\ pc' = "returned"
     \/ /\ pc' = "analysis"
        /\ UNCHANGED <<llm_raised, response>>
  /\ UNCHANGED <<status, deps, committed, ret, nops, n_calls, tool_calls, results,
                 memory>>

\* _analyze_for_entities: its own except clause returns []
AnalysisCall ==
  /\ pc = "analysis"
  /\ llm_calls' = llm_calls + 1
  /\ llm_log' = Append(llm_log, ModelCall("generate"))
  /\ \/ /\ llm_raised' = "analysis"
        /\ response' = success_response("regular", 0, <<>>)
     \/ /\ \E is_json \in BOOLEAN :
             response' = success_response("regular", 0,
                           IF is_json THEN <<"analysis">> ELSE <<>>)
        /\ UNCHANGED llm_raised
  /\ pc' = "returned"
  /\ UNCHANGED <<status, deps, committed, ret, nops, n_calls, tool_calls, results,
                 memory>>

NextTurn ==
  \/ GenerateResponse
  \/ FirstCall
  \/ ProcessCall
  \/ FollowupCall
  \/ RegularCall
  \/ AnalysisCall

SpecTurn == Init /\ [][NextTurn]_vars

\* ------------------------------------------------------------------ claims
Terminal == {"done", "canceled"}

\* goal g has a requires row whose parent goal is neither done nor canceled
UnmetRequirement(db, g) ==
  \E dep \in db.deps :
    /\ dep.dependent_goal_id = g
    /\ dep.dependency_type = "requires"
    /\ db.status[dep.parent_goal_id] \notin Terminal

\* the parents of the requires rows of g
RequiredParents(db, g) ==
  {dep.parent_goal_id :
     dep \in {x \in db.deps : x.dependent_goal_id = g /\ x.dependency_type = "requires"}}

\* C1: a requires edge P->D created while D is todo and P is neither done nor
\* canceled leaves D blocked, through the tool, through
\* GoalRepository.create_dependency, and (P3) through a recomputation of a
\* todo goal that has such an edge.
C1_BlockingClosure ==
  /\ \A p \in GoalRefs, d \in GoalRefs, n \in StrengthInputs :
       LET r == create_goal_dependency(Now, committed, p, d, "requires", n)
       IN (r.ret.error = "none" /\ status[d] = "todo" /\ status[p] \notin Terminal)
            => r.db.status[d] = "blocked"
  /\ \A p \in AllGoals, d \in AllGoals :
       LET made == create_dependency(Now, p, d, "requires", 1)
       IN (made.raised = "none" /\ status[d] = "todo" /\ status[p] \notin Terminal)
            => made.db.status[d] = "blocked"
  /\ \A d \in AllGoals :
       (status[d] = "todo" /\ UnmetRequirement(Now, d))
         => recalculate_goal_status_after_dependency_change(Now, d).status[d] = "blocked"

\* the first operation created a requires edge between two todo goals and the
\* dependent is now blocked
C1_Witness ==
  /\ nops = 1
  /\ ret.op = "create_goal_dependency" /\ ret.error = "none" /\ ret.value = "requires"
  /\ status[ret.goal] = "todo"
  /\ status[ret.dependent] = "blocked"

\* C2: if D is blocked and P is the parent of its only requires edge, marking
\* P done (the tool, or update then recalculate_dependent_goals_status(P))
\* leaves D todo.
C2_UnblockOnCompletion ==
  \A p \in AllGoals, d \in AllGoals :
    (status[d] = "blocked" /\ RequiredParents(Now, d) = {p})
      => /\ LET r == update_goal_status(Now, committed, p, "done")
            IN r.ret.error = "none" => r.db.status[d] = "todo"
         /\ status[p] # Absent
              => recalculate_dependent_goals_status(
                   update_goal(Now, p, "done"), p).status[d] = "todo"

\* a requires edge blocked D, then its parent was marked done and D is todo
C2_Witness ==
  /\ nops = 2
  /\ ret.op = "update_goal_status" /\ ret.error = "none" /\ ret.value = "done"
  /\ \E d \in Goals : status[d] = "todo" /\ RequiredParents(Now, d) = {ret.goal}

\* C3: no recomputation, and no repository operation that runs one, changes
\* the status of a goal that is done or canceled.
C3_TerminalSticky ==
  LET Kept(db) == \A g \in AllGoals : status[g] \in Terminal => db.status[g] = status[g]
  IN /\ \A x \in AllGoals :
          /\ Kept(recalculate_goal_status_after_dependency_change(Now, x))
          /\ Kept(recalculate_dependent_goals_status(Now, x))
     /\ \A p \in AllGoals, d \in AllGoals, t \in DependencyType :
          Kept(create_dependency(Now, p, d, t, 1).db)
     /\ \A dep \in deps : Kept(delete_dependency(Now, dep))

\* a requires edge from a todo parent was created into a goal that is done or
\* canceled, and the goal kept that status
C3_Witness ==
  /\ ret.op = "create_goal_dependency" /\ ret.error = "none" /\ ret.value = "requires"
  /\ status[ret.goal] = "todo"
  /\ status[ret.dependent] \in Terminal

\* C4: creating an edge of a type other than requires into a todo goal with
\* no unmet requires edge, or recomputing such a goal, leaves it todo.
C4_NonRequiresNeverBlock ==
  \A d \in AllGoals :
    (status[d] = "todo" /\ ~UnmetRequirement(Now, d)) =>
      /\ recalculate_goal_status_after_dependency_change(Now, d).status[d] = "todo"
      /\ \A p \in GoalRefs, t \in DependencyType \ {"requires"} :
           /\ \A n \in StrengthInputs :
                LET r == create_goal_dependency(Now, committed, p, d, t, n)
                IN r.ret.error = "none" => r.db.status[d] = "todo"
           /\ LET made == create_dependency(Now, p, d, t, 1)
              IN made.raised = "none" => made.db.status[d] = "todo"

\* an edge of another type from a todo parent was created and the dependent
\* is todo
C4_Witness ==
  /\ ret.op = "create_goal_dependency" /\ ret.error = "none"
  /\ ret.value \in DependencyType \ {"requires"}
  /\ status[ret.goal] = "todo"
  /\ status[ret.dependent] = "todo"

\* C5: every blocked goal has a requires edge whose parent is neither done nor
\* canceled.
C5_BlockedHasUnmetRequirement ==
  \A g \in Goals : status[g] = "blocked" => UnmetRequirement(Now, g)

\* C6: no todo goal has a requires edge whose parent is neither done nor
\* canceled.
C6_TodoHasNoUnmetRequirement ==
  \A g \in Goals : status[g] = "todo" => ~UnmetRequirement(Now, g)

\* C7: no row has parent = dependent, in the session or committed;
\* create_dependency(g, g) raises for every goal, and the tool called with
\* parent = dependent returns an error and leaves no such row.
C7_NoSelfDependency ==
  /\ \A dep \in deps \cup committed.deps : dep.parent_goal_id # dep.dependent_goal_id
  /\ \A g \in AllGoals, t \in DependencyType :
       LET made == create_dependency(Now, g, g, t, 1)
       IN made.raised # "none" /\ made.db = Now
  /\ \A x \in GoalRefs, t \in DependencyType \cup TypeInputs, n \in StrengthInputs :
       LET r == create_goal_dependency(Now, committed, x, x, t, n)
       IN /\ r.ret.error # "none"
          /\ \A dep \in r.db.deps : dep.parent_goal_id # dep.dependent_goal_id

\* the tool was called with parent = dependent and the flush was rejected
C7_Witness ==
  /\ ret.op = "create_goal_dependency"
  /\ ret.error = "no_self_dependency"

SamePair(a, b) ==
  /\ a.parent_goal_id = b.parent_goal_id
  /\ a.dependent_goal_id = b.dependent_goal_id

\* C8: at most one row per ordered (parent, dependent) pair; creating a row
\* for a pair that has one is rejected whatever the type, and no new row
\* appears.
C8_UniquePair ==
  /\ \A a \in deps, b \in deps : SamePair(a, b) => a = b
  /\ \A a \in committed.deps, b \in committed.deps : SamePair(a, b) => a = b
  /\ \A dep \in deps, t \in DependencyType, n \in StrengthInputs :
       /\ LET made == create_dependency(Now, dep.parent_goal_id, dep.dependent_goal_id,
                                        t, clamp_strength(n))
          IN made.raised # "none" /\ made.db = Now
       /\ LET r == create_goal_dependency(Now, committed, dep.parent_goal_id,
                                          dep.dependent_goal_id, t, n)
          IN /\ r.ret.error # "none"
             /\ r.db.deps \subseteq deps \cup committed.deps
             /\ \A a \in r.db.deps, b \in r.db.deps : SamePair(a, b) => a = b

\* the tool was called for a pair that had a row and the flush was rejected
C8_Witness ==
  /\ ret.op = "create_goal_dependency"
  /\ ret.error = "unique_goal_dependency"

\* C9: a batch of an unregistered name followed by a registered tool, both
\* with arguments that parse and bind, yields two entries: the first carries
\* the Unknown function error and the second the mapping the tool returned.
C9_DispatchIsolation ==
  (/\ n_calls = 2 /\ Len(results) >= 2
   /\ tool_calls[1].name = Unregistered /\ tool_calls[1].kind \in {"mapping", "json"}
   /\ tool_calls[2].name \in FunctionNames /\ tool_calls[2].kind \in {"mapping", "json"})
    => /\ Len(results) = 2
       /\ results[1] = [function |-> Unregistered, error |-> "none",
                        result |-> Err(Unregistered, "Unknown function")]
       /\ results[2].function = tool_calls[2].name
       /\ results[2].error = "none"
       /\ results[2].result.op = tool_calls[2].name
       /\ results[2].result.error \notin {"Unknown function", "Error calling"}
       /\ (results[2].result.op = "create_goal" /\ results[2].result.error = "none")
            => status[results[2].result.goal] = "todo"
       /\ pc = "returned" /\ response.status = "success"
            => response.tool_results = results

\* the turn returned after such a batch in which the tool created a goal
C9_Witness ==
  /\ pc = "returned" /\ response.status = "success"
  /\ Len(results) = 2
  /\ tool_calls[1].name = Unregistered /\ tool_calls[1].kind = "mapping"
  /\ results[2].result.op = "create_goal" /\ results[2].result.error = "none"

\* C10: when the first model call or the follow-up model call raises,
\* generate_response returns the apology with status error.
C10_OrchestratorNeverRaises ==
  llm_raised \in {"first", "followup"}
    => /\ pc = "returned"
       /\ response.content = Apology
       /\ response.status = "error"

\* the follow-up call raised after a tool call was processed
C10_Witness ==
  /\ llm_raised = "followup"
  /\ Len(results) > 0
  /\ response.status = "error"

\* the first model call raised
C10_WitnessFirst ==
  /\ llm_raised = "first"
  /\ response.status = "error"

\* entry i of results is a tool's success mapping
Succeeded(i) == results[i].error = "none" /\ results[i].result.error = "none"

\* entry i of results reports an error, of the registry or of the tool
Failed(i) == results[i].error # "none" \/ results[i].result.error # "none"

\* C11: when call i of a batch succeeded and a later call j failed, what call
\* i did is still there: the goal it created exists, the edge it created is in
\* the table, and the status it wrote is the goal's status when j directly
\* follows it.
C11_BatchIndependence ==
  \A i \in 1..Len(results), j \in 1..Len(results) :
    (i < j /\ Succeeded(i) /\ Failed(j)) =>
      LET done == results[i].result
      IN /\ done.op = "create_goal" => status[done.goal] # Absent
         /\ done.op = "create_goal_dependency" =>
              \E dep \in deps : /\ dep.parent_goal_id = done.goal
                                /\ dep.dependent_goal_id = done.dependent
                                /\ dep.dependency_type = done.value
         /\ (done.op = "update_goal_status" /\ j = i + 1 /\ j = Len(results)
             /\ done.value \in {"done", "canceled", "blocked"})
              => status[done.goal] = done.value

\* C12: the results list has one entry per call taken, in the order of the
\* calls; an unregistered name, a string that is no JSON, a tool call that
\* raises and a tool call that returns each yield their own kind of entry and
\* none of them stops the loop: the follow-up call is only reached with one
\* entry per call of the batch.
C12_OneResultPerCall ==
  /\ Len(results) = Len(tool_calls)
  /\ Len(results) <= n_calls
  /\ pc = "returned" /\ n_calls > 0 => Len(results) = n_calls
  /\ \A i \in 1..Len(results) :
       /\ results[i].function = tool_calls[i].name
       /\ results[i].error \in {"none", "Invalid JSON arguments"}
       /\ tool_calls[i].kind = "bad_json"
            <=> (results[i].error = "Invalid JSON arguments" /\ results[i].result = NoResult)
       /\ tool_calls[i].kind # "bad_json" =>
            /\ results[i].result.op = tool_calls[i].name
            /\ tool_calls[i].name = Unregistered
                 <=> results[i].result.error = "Unknown function"
            /\ (tool_calls[i].name \in FunctionNames /\ tool_calls[i].kind = "wrong_keys")
                 <=> results[i].result.error = "Error calling"

\* a batch of a string that is no JSON followed by a tool that returned: both
\* have their entry and the turn went on to its response
C12_Witness ==
  /\ pc = "returned" /\ response.status = "success"
  /\ Len(results) = 2
  /\ tool_calls[1].kind = "bad_json"
  /\ results[1].error = "Invalid JSON arguments"
  /\ Succeeded(2)

\* a batch of a tool call that raised followed by an unregistered name
C12_WitnessRaised ==
  /\ Len(results) = 2
  /\ results[1].error = "none" /\ results[1].result.error = "Error calling"
  /\ results[2].error = "none" /\ results[2].result.error = "Unknown function"

C14_WitnessType ==
  /\ ret.op = "create_goal_dependency" /\ ret.error = "Invalid dependency_type"
  /\ \A g \in Goals : status[g] # Absent

\* C15: create_goal_dependency with a strength outside 1..5 returns an error
\* mapping.
C15_StrengthOutOfRangeIsError ==
  \A p \in GoalRefs, d \in GoalRefs, t \in DependencyType, n \in StrengthInputs \ (1..5) :
    create_goal_dependency(Now, committed, p, d, t, n).ret.error # "none"

\* entry i of results is the error mapping of an except clause that rolled
\* the session back
RolledBack(i) ==
  /\ results[i].error = "none"
  /\ results[i].result.error \in
       {"Failed to update goal status", "Failed to create goal dependency",
        "foreign_key", "no_self_dependency", "valid_strength", "unique_goal_dependency"}

\* no call from i to j rolled the session back
NoRollback(i, j) == \A k \in i..j : ~RolledBack(k)

\* C16: the calls of a batch run one after the other, each on the rows the
\* previous one left: there is one entry per call taken; a goal that call i
\* created is not created again by a later create_goal; a pair that call i
\* linked cannot be linked again by a later call; and update_goal_status(d,
\* todo) right after a call that made d require an unfinished goal leaves d
\* blocked.
C16_SequentialBatch ==
  /\ Len(tool_calls) = Len(results)
  /\ \A i \in 1..Len(results), j \in 1..Len(results) :
       (i < j /\ Succeeded(i) /\ Succeeded(j) /\ NoRollback(i, j)) =>
         LET a == results[i].result
             b == results[j].result
         IN /\ (a.op = "create_goal" /\ b.op = "create_goal") => a.goal # b.goal
            /\ (a.op = "create_goal_dependency" /\ b.op = "create_goal_dependency")
                 => ~(a.goal = b.goal /\ a.dependent = b.dependent)
            /\ (/\ a.op = "create_goal_dependency" /\ a.value = "requires"
                /\ b.op = "update_goal_status" /\ b.goal = a.dependent /\ b.value = "todo"
                /\ j = i + 1 /\ j = Len(results))
                 => (status[a.dependent] = "blocked" \/ status[a.goal] \in Terminal)

\* the first call created a goal and the second made an existing goal require
\* it: the second call found the new goal and the existing goal is blocked
C16_Witness ==
  /\ Len(results) = 2 /\ Succeeded(1) /\ Succeeded(2)
  /\ results[1].result.op = "create_goal"
  /\ results[2].result.op = "create_goal_dependency"
  /\ results[2].result.value = "requires"
  /\ results[2].result.goal = results[1].result.goal
  /\ status[results[2].result.dependent] = "blocked"

\* the first call made goal d require a todo goal and the second set d to
\* todo: d is blocked
C16_WitnessReblocked ==
  /\ Len(results) = 2 /\ Succeeded(1) /\ Succeeded(2)
  /\ results[1].result.op = "create_goal_dependency"
  /\ results[2].result.op = "update_goal_status" /\ results[2].result.value = "todo"
  /\ results[2].result.goal = results[1].result.dependent
  /\ status[results[2].result.goal] = "blocked"

\* C17: update_goal_status(g, done) leaves g done, leaves the table of edges
\* as it was, and changes the status of another goal only if that goal is the
\* dependent of a requires edge whose parent is g.
C17_DoneFrame ==
  \A g \in Goals :
    LET r == update_goal_status(Now, committed, g, "done")
    IN r.ret.error = "none" =>
         /\ r.db.status[g] = "done"
         /\ r.db.deps = deps
         /\ \A h \in AllGoals \ {g} :
              r.db.status[h] # status[h] =>
                \E dep \in deps : /\ dep.parent_goal_id = g
                                  /\ dep.dependent_goal_id = h
                                  /\ dep.dependency_type = "requires"

\* a chain g -> h -> k of requires edges whose first goal was marked done: h
\* is todo again and k, two hops away, is still blocked
C17_Witness ==
  /\ ret.op = "update_goal_status" /\ ret.error = "none" /\ ret.value = "done"
  /\ status[ret.goal] = "done"
  /\ \E h \in Goals, k \in Goals :
       /\ ret.goal \in RequiredParents(Now, h)
       /\ h \in RequiredParents(Now, k)
       /\ status[h] = "todo"
       /\ status[k] = "blocked"

\* C19: the recomputation of a blocked goal D that has requires edges sets it
\* to todo exactly when every requires parent is done or canceled; and
\* update_goal_status(P, done or canceled) on a requires parent P of D leaves
\* D todo exactly when every other requires parent of D is done or canceled,
\* and blocked otherwise.
C19_AllParentsFinished ==
  \A d \in Goals :
    (status[d] = "blocked" /\ RequiredParents(Now, d) # {}) =>
      /\ recalculate_goal_status_after_dependency_change(Now, d).status[d] = "todo"
           <=> \A q \in RequiredParents(Now, d) : status[q] \in Terminal
      /\ \A p \in RequiredParents(Now, d), v \in Terminal :
           LET r == update_goal_status(Now, committed, p, v)
               last == \A q \in RequiredParents(Now, d) \ {p} : status[q] \in Terminal
           IN r.ret.error = "none" =>
                /\ last => r.db.status[d] = "todo"
                /\ ~last => r.db.status[d] = "blocked"

\* a goal with two requires parents: the second of them was just finished,
\* after the first, and the goal is todo
C19_Witness ==
  /\ nops = 2
  /\ ret.op = "update_goal_status" /\ ret.error = "none" /\ ret.value \in Terminal
  /\ \E d \in Goals :
       /\ Cardinality(RequiredParents(Now, d)) >= 2
       /\ ret.goal \in RequiredParents(Now, d)
       /\ \A q \in RequiredParents(Now, d) : status[q] \in Terminal
       /\ status[d] = "todo"
       /\ committed.status[d] = "blocked"

\* a goal with two requires parents: one of them was just finished, the other
\* is not, and the goal is still blocked
C19_WitnessStillBlocked ==
  /\ nops = 1
  /\ ret.op = "update_goal_status" /\ ret.error = "none" /\ ret.value \in Terminal
  /\ \E d \in Goals :
       /\ Cardinality(RequiredParents(Now, d)) >= 2
       /\ ret.goal \in RequiredParents(Now, d)
       /\ \E q \in RequiredParents(Now, d) : status[q] \notin Terminal
       /\ status[d] = "blocked"

\* C20: update_goal_status(g, todo) on a goal that has a requires edge whose
\* parent is neither done nor canceled succeeds and leaves g blocked.
C20_TodoReblocked ==
  \A g \in Goals :
    (status[g] # Absent /\ UnmetRequirement(Now, g)) =>
      LET r == update_goal_status(Now, committed, g, "todo")
      IN r.ret.error = "none" /\ r.db.status[g] = "blocked"

\* the tool was asked to set a goal to todo, answered with status todo, and
\* the goal, which requires an unfinished goal, is blocked
C20_Witness ==
  /\ ret.op = "update_goal_status" /\ ret.error = "none" /\ ret.value = "todo"
  /\ UnmetRequirement(Now, ret.goal)
  /\ status[ret.goal] = "blocked"

\* the last n elements of a sequence
Latest(seq, n) ==
  IF Len(seq) <= n THEN seq ELSE SubSeq(seq, Len(seq) - n + 1, Len(seq))

\* C18: fetch returns at most max_messages messages, and they are the
\* messages of the latest append calls of that user, in call order: all of
\* the calls since the keys of the user were last dropped, or the latest
\* max_messages of them.
C18_FetchLatest ==
  \A user \in Users :
    LET fetched == fetch(session, user)
    IN /\ Len(fetched) <= MaxMessages
       /\ fetched = Latest(appended[user],
                           IF live[user] <= MaxMessages THEN live[user] ELSE MaxMessages)

\* more than max_messages messages were appended for a user, not all the
\* same, with no expiry in between, and fetch returns max_messages of them
C18_Witness ==
  \E user \in Users :
    /\ live[user] = Len(appended[user])
    /\ Len(appended[user]) > MaxMessages
    /\ appended[user][1] # appended[user][Len(appended[user])]
    /\ Len(fetch(session, user)) = MaxMessages

\* goal g, if it is todo or blocked, is blocked exactly when it has a requires
\* row whose parent is neither done nor canceled
Consistent(db, g) ==
  db.status[g] \in {"todo", "blocked"} => (db.status[g] = "blocked" <=> UnmetRequirement(db, g))

\* C21: after create_dependency (of any type, from the repository or through
\* the tool) and after delete_dependency, the dependent goal of the row, if
\* it is todo or blocked, is blocked exactly when it has an unmet requires
\* row.
C21_DependentReevaluated ==
  /\ \A p \in AllGoals, d \in AllGoals, t \in DependencyType :
       /\ LET made == create_dependency(Now, p, d, t, 1)
          IN made.raised = "none" => Consistent(made.db, d)
       /\ LET r == create_goal_dependency(Now, committed, p, d, t, 1)
          IN r.ret.error = "none" => Consistent(r.db, d)
  /\ \A dep \in deps : Consistent(delete_dependency(Now, dep), dep.dependent_goal_id)

\* a requires edge from a todo goal was created and then deleted: the
\* dependent, blocked in between, is todo
C21_Witness ==
  /\ nops = 2
  /\ ret.op = "delete_dependency" /\ ret.value = "requires"
  /\ status[ret.goal] = "todo"
  /\ status[ret.dependent] = "todo"

\* the turn took the branch of a client that has generate_with_tools
WithTools == llm_log # <<>> /\ llm_log[1].method = "generate_with_tools"

C22_WitnessNoTools ==
  /\ pc = "returned" /\ WithTools /\ n_calls = 0
  /\ response.content = "first"
  /\ Len(llm_log) = 1

C23_ContextWindow ==
  /\ \A user_message \in UserMessages :
       LET built == _build_enhanced_context(messages, user_message)
           n == Len(messages)
           k == IF n <= 20 THEN n ELSE 20
       IN /\ Len(built) = k + 2
          /\ built[1] = ChatMessage("system", SystemContent)
          /\ \A i \in 2..Len(built) : built[i].role # "system"
          /\ \A i \in 1..k : built[i + 1] = messages[n - k + i]
          /\ built[k + 2] = ChatMessage("user", user_message)
  /\ context # NoContext =>
       /\ Len(context) <= 22
       /\ context[1].role = "system"
       /\ context[Len(context)].content \in UserMessages

\* a context was built from a history of more than 20 messages: it has 22
\* messages and its window starts at the 20th message from the end
C23_Witness ==
  /\ Len(messages) > 20
  /\ Len(context) = 22
  /\ context[2] = messages[Len(messages) - 19]
  /\ context[21] = messages[Len(messages)]

\* C24: update_goal_title and update_goal_priority called on the goal of
\* another user return the not-found-or-not-owned error and leave the title
\* and the priority of that goal as they were.
C24_ForeignFieldsUnchanged ==
  /\ \A title \in TitleInputs :
       LET r == update_goal_title(Now, fields, ForeignGoal, title)
       IN /\ r.ret.error = "not found or not owned by user"
          /\ r.fields[ForeignGoal] = fields[ForeignGoal]
  /\ \A priority \in PriorityInputs :
       LET r == update_goal_priority(Now, fields, ForeignGoal, priority)
       IN /\ r.ret.error = "not found or not owned by user"
          /\ r.fields[ForeignGoal] = fields[ForeignGoal]

\* goals g can reach by following requires rows from dependent to parent, in
\* at most n steps
RECURSIVE Prerequisites(_, _, _)
Prerequisites(db, g, n) ==
  IF n = 0 THEN {}
  ELSE LET direct == RequiredParents(db, g)
       IN direct \cup UNION {Prerequisites(db, p, n - 1) : p \in direct}

\* C25: the requires rows contain no cycle: no goal is among its own
\* prerequisites, in the session or in the last commit.
C25_NoRequiresCycle ==
  /\ \A g \in Goals : g \notin Prerequisites(Now, g, MaxGoals)
  /\ \A g \in Goals : g \notin Prerequisites(committed, g, MaxGoals)

\* every goal that is todo or blocked is blocked exactly when it has an unmet
\* requires row
AllConsistent(db) ==
  \A g \in Goals : db.status[g] # Absent => Consistent(db, g)

\* C26: from a state in which every todo or blocked goal is consistent,
\* update_goal_status(g, done) and update_goal_status(g, canceled) lead to a
\* state in which every todo or blocked goal is consistent.
C26_OneHopSufficient ==
  AllConsistent(Now) =>
    \A g \in Goals, v \in Terminal :
      LET r == update_goal_status(Now, committed, g, v)
      IN r.ret.error = "none" => AllConsistent(r.db)

\* the first goal of a chain g -> h -> k of requires edges was finished in a
\* consistent state: h is todo, k is blocked, and the state is consistent
C26_Witness ==
  /\ nops = 1
  /\ ret.op = "update_goal_status" /\ ret.error = "none" /\ ret.value \in Terminal
  /\ AllConsistent(committed)
  /\ AllConsistent(Now)
  /\ \E h \in Goals, k \in Goals :
       /\ ret.goal \in RequiredParents(Now, h)
       /\ h \in RequiredParents(Now, k)
       /\ committed.status[h] = "blocked" /\ status[h] = "todo"
       /\ status[k] = "blocked"

\* C27: when generate_response has returned the error result, the goals and
\* the edges are as they were when the turn began.
C27_ErrorTurnHasNoEffect ==
  (pc = "returned" /\ response.status = "error") =>
    /\ response.tool_calls = 0 /\ response.tool_results = <<>>
    /\ status = committed.status
    /\ deps = committed.deps

\* C28: no two rows of the messages table have the same chat and the same
\* seq.
C28_UniqueSeq ==
  \A a \in msg_rows, b \in msg_rows :
    (a.chat_id = b.chat_id /\ a.seq = b.seq) => a = b

\* C29: a chat for which some accepted WebSocket's handler is still in its
\* receive loop is active.
C29_ActiveWhileOpen ==
  \A chat_id \in Chats :
    (\E websocket \in Sockets :
       ws[websocket].state = "open" /\ ws[websocket].chat = chat_id)
      => is_active(active_connections, chat_id)

\* C30: when the handler of the only WebSocket of a chat has ended, the chat
\* is not active.
C30_InactiveAfterHandlerEnds ==
  \A websocket \in Sockets :
    (/\ ws[websocket].state = "ended"
     /\ \A other \in Sockets \ {websocket} : ws[other].chat # ws[websocket].chat)
      => ~is_active(active_connections, ws[websocket].chat)

====
